---- MODULE Spec2Model ----
(***************************************************************************)
(* Model of the chat front end (src/unnamed/part_000): the Chat Session    *)
(* Store on IndexedDB, the Conversation Controller (Chat component) and    *)
(* the Model Catalog Fetcher (Settings component).                         *)
(*                                                                         *)
(* Three specifications share the module:                                  *)
(*   StoreSpec    the four store functions applied to arbitrary records;   *)
(*   Spec         the Chat component with its storage queue (FairSpec adds *)
(*                the fairness of the HTTP transport and of the storage);  *)
(*   CatalogSpec  the Settings component's model-list effect.              *)
(***************************************************************************)
EXTENDS Integers, Sequences, FiniteSets, TLC

VARIABLES
    \* ---- Chat Session Store (IndexedDB object store "sessions") ----
    db,                \* the object store: a set of ChatSession records, keyed by id
    lastOp,            \* StoreSpec: the last store function called and what it returned
    dbQueue,           \* Spec: storage transactions created and not yet completed (FIFO)
    \* ---- host shell / environment ----
    now,               \* Date.now()
    config,            \* ApiConfig (prop of Chat and of Settings)
    systemPrompt,      \* systemPrompt (prop of Chat)
    \* ---- Chat component ----
    messages,          \* useState<Message[]>
    input,             \* useState("") of the input field
    loading,           \* useState(false): the controller is Sending
    currentSessionId,  \* useState(`session-${Date.now()}`)
    chatSessions,      \* useState<ChatSession[]>: the listing shown in the sidebar
    sends,             \* the sendMessage calls suspended at an await, oldest first
    httpCalls,         \* number of chat requests issued with fetch()
    nBusy,             \* number of sendMessage calls made while loading was true
    actions,           \* number of user actions taken (submit, new chat, load, delete)
    overlapped,        \* a save was started while an earlier save was still pending
    \* ---- Settings component ----
    availableModels,   \* useState<ModelInfo[]>([])
    loadingModels,     \* useState(false)
    modelsError,       \* useState("")
    fetches,           \* the fetchModels calls suspended at an await, oldest first
    latest,            \* the last run of the fetch effect, and the result of the fetch it started
    resolved,          \* the fetchModels call that ended last, and how
    edits,             \* number of edits the user made in the form
    \* ---- history ----
    probe,             \* CapabilitySpec: the last capability check made and its results
    nFailed,           \* FailSpec: number of storage transactions that failed
    failedAt,          \* FailSpec: httpCalls when the last of them failed
    deleted            \* ids of the sessions a deleteSession call has finished deleting

storeVars == <<db, lastOp, dbQueue>>

envVars == <<now, config, systemPrompt>>

chatVars == <<messages, input, loading, currentSessionId, chatSessions, sends,
              httpCalls, nBusy, actions, overlapped>>

auxVars == <<probe, nFailed, failedAt, deleted>>

settingsVars == <<availableModels, loadingModels, modelsError, fetches, latest, resolved, edits>>

vars == <<db, lastOp, dbQueue, now, config, systemPrompt, messages, input, loading,
          currentSessionId, chatSessions, sends, httpCalls, nBusy, actions, overlapped,
          availableModels, loadingModels, modelsError, fetches, latest, resolved, edits,
          probe, nFailed, failedAt, deleted>>

\* ------------------------------------------------------------------ bounds
NumIds == 3            \* session ids 1..NumIds in StoreSpec
MaxStamp == 2          \* updatedAt / createdAt values 1..MaxStamp in StoreSpec
MaxTime == 2           \* Spec: the clock runs from 1 to MaxTime
MaxActions == 2        \* Spec: user actions (submits that do something, sidebar actions)
MaxEdits == 2          \* CatalogSpec: edits of the Settings form
MaxFetches == 3        \* CatalogSpec: fetchModels calls
MaxIdLen == 3          \* CapabilitySpec: length of the generated model identifiers
MaxFailures == 2       \* FailSpec: storage transactions that fail
LongLen == 51          \* TitleSpec: length of the long text typed by the user

\* ------------------------------------------------------------------ text
\* A string is the sequence of its characters; <<>> is "" (and, for an
\* optional string, undefined: the code tests both with !x).  The fixed
\* texts the code concatenates are kept as one element each.
UpperChars == <<"A","B","C","D","E","F","G","H","I","J","K","L","M",
                "N","O","P","Q","R","S","T","U","V","W","X","Y","Z">>
LowerChars == <<"a","b","c","d","e","f","g","h","i","j","k","l","m",
                "n","o","p","q","r","s","t","u","v","w","x","y","z">>

\* The lower-case letter of each upper-case letter.
LowerOf ==
    [ c \in { UpperChars[u] : u \in 1..Len(UpperChars) } |->
        LowerChars[CHOOSE u \in 1..Len(UpperChars) : UpperChars[u] = c] ]

toLowerCase(str) ==
    [ k \in 1..Len(str) |-> IF str[k] \in DOMAIN LowerOf THEN LowerOf[str[k]] ELSE str[k] ]

includes(str, part) ==
    \E k \in 1..(Len(str) - Len(part) + 1) : SubSeq(str, k, k + Len(part) - 1) = part

slice(str, from, to) ==
    SubSeq(str, from + 1, IF to < Len(str) THEN to ELSE Len(str))

\* ------------------------------------------------------------------ configuration
\* ApiConfig; model = <<>> and reasoningEffort = "" stand for undefined.
DefaultConfig ==
    [endpoint |-> <<"http://localhost:11434">>, apiKey |-> <<>>, provider |-> "ollama",
     model |-> <<>>, reasoningEffort |-> ""]

isReasoningModel_caseSensitive(modelName) ==
    IF modelName = <<>> THEN FALSE
    ELSE \/ includes(modelName, <<"o","1">>)
         \/ includes(modelName, <<"r","e","a","s","o","n","i","n","g">>)
         \/ includes(modelName, <<"g","p","t","-","o","s","s">>)
         \/ includes(modelName, <<"d","e","e","p","s","e","e","k","-","r","1">>)

isReasoningModel(modelName) ==
    IF modelName = <<>> THEN FALSE
    ELSE LET lowerName == toLowerCase(modelName)
         IN  \/ includes(lowerName, <<"o","1">>)
             \/ includes(lowerName, <<"r","e","a","s","o","n","i","n","g">>)
             \/ includes(lowerName, <<"g","p","t","-","o","s","s">>)
             \/ includes(lowerName, <<"d","e","e","p","s","e","e","k","-","r","1">>)

\* ------------------------------------------------------------------ Settings: state
\* latest: kind = what the last run of the fetch effect did ("fetch",
\* "incomplete": the branch for a missing key, "noEndpoint", "none" before
\* the first run); seq = number of fetchModels calls so far; overlap = the
\* last call started while another was suspended; done, models, error = its
\* result once it ended.
NoFetch == [kind |-> "none", seq |-> 0, overlap |-> FALSE, done |-> FALSE,
            models |-> <<>>, error |-> <<>>]

\* resolved: the call that ended last (seq), whether its try block completed,
\* for each of its detail lookups whether it failed and the detail it got,
\* whether the call ended with setConfig, and the status, status text and
\* body text of the response it failed on ("200" when it did not fail, ""
\* when there was no response); last = the position in the list of the
\* detail lookup that settled last (0 without lookups).
NoneResolved == [seq |-> 0, ok |-> FALSE, lookups |-> <<>>, wrote |-> FALSE,
                 status |-> "", statusText |-> <<>>, text |-> <<>>, last |-> 0]

\* probe: the identifier checked, the answer of the detail lookup used for
\* the extended check (out[1]; <<>> before the first check), and the two
\* results.
NoProbe == [name |-> <<>>, out |-> <<>>, byId |-> FALSE, extended |-> FALSE]

\* The Settings component before its first effect.
SettingsUnmounted ==
    /\ availableModels = <<>>
    /\ loadingModels = FALSE
    /\ modelsError = <<>>
    /\ fetches = <<>>
    /\ latest = NoFetch
    /\ resolved = NoneResolved
    /\ edits = 0
    /\ probe = NoProbe
    /\ nFailed = 0
    /\ failedAt = 0
    /\ deleted = {}

\* ------------------------------------------------------------------ store
\* A session payload (title + messages) as the save effect would derive it.
Payloads == { [title |-> "a", messages |-> <<[role |-> "user", content |-> "a"]>>],
              [title |-> "b", messages |-> <<[role |-> "user", content |-> "b"],
                                             [role |-> "assistant", content |-> "r"]>>] }

StoreSessions ==
    { [id |-> i, title |-> p.title, messages |-> p.messages,
       createdAt |-> t, updatedAt |-> t] :
        i \in 1..NumIds, p \in Payloads, t \in 1..MaxStamp }

\* put() of a record under keyPath "id": insert, or replace the record of that key.
saveChatSession_merge(store, session) ==
    IF \E r \in store : r.id = session.id
    THEN { IF r.id = session.id
           THEN [session EXCEPT !.createdAt = r.createdAt]
           ELSE r : r \in store }
    ELSE store \cup {session}

saveChatSession(store, session) ==
    { r \in store : r.id # session.id } \cup {session}

\* get(id), "req.result || null": the set holding the record, empty for null.
loadChatSession(store, id) ==
    { r \in store : r.id = id }

\* delete(id)
deleteChatSession_clear(store, id) == {}

deleteChatSession(store, id) ==
    { r \in store : r.id # id }

\* getAll(): every record, in ascending key order.
RECURSIVE getAll(_)
getAll(store) ==
    IF store = {} THEN <<>>
    ELSE LET first == CHOOSE r \in store : \A q \in store : r.id <= q.id
         IN  <<first>> \o getAll(store \ {first})

\* The comparator of sessions.sort: (a, b) => b.updatedAt - a.updatedAt.
compareSessions_asc(a, b) == a.updatedAt - b.updatedAt

compareSessions(a, b) == b.updatedAt - a.updatedAt

\* Array.prototype.sort is stable: x goes after every element e that the
\* comparator does not put after it (compare(e, x) <= 0).
RECURSIVE insertSorted(_, _)
insertSorted(x, sorted) ==
    IF sorted = <<>> THEN <<x>>
    ELSE IF compareSessions(Head(sorted), x) <= 0
         THEN <<Head(sorted)>> \o insertSorted(x, Tail(sorted))
         ELSE <<x>> \o sorted

RECURSIVE sortSessions(_, _)
sortSessions(todo, sorted) ==
    IF todo = <<>> THEN sorted
    ELSE sortSessions(Tail(todo), insertSorted(Head(todo), sorted))

loadAllChatSessions(store) == sortSessions(getAll(store), <<>>)

\* ------------------------------------------------------------------ StoreSpec
\* lastOp: op/id = the function called last and its key; put = the record it
\* wrote; old = the record a put replaced; got = what get returned; list =
\* what getAll returned; prev = the function called just before on the same
\* key ("none" otherwise), prevPut = the record that call wrote.
NoOp == [op |-> "none", id |-> 0, put |-> {}, old |-> {}, got |-> {},
         list |-> <<>>, prev |-> "none", prevPut |-> {}]

PrevOn(i) == IF lastOp.id = i /\ lastOp.op \in {"put", "delete"} THEN lastOp.op ELSE "none"

StoreInit ==
    /\ db = {}
    /\ lastOp = NoOp
    /\ dbQueue = <<>>
    /\ now = 1
    /\ config = DefaultConfig
    /\ systemPrompt = <<>>
    /\ messages = <<>>
    /\ input = <<>>
    /\ loading = FALSE
    /\ currentSessionId = 1
    /\ chatSessions = <<>>
    /\ sends = <<>>
    /\ httpCalls = 0
    /\ nBusy = 0
    /\ actions = 0
    /\ overlapped = FALSE
    /\ SettingsUnmounted

StPut ==
    \E s \in StoreSessions :
        /\ db' = saveChatSession(db, s)
        /\ lastOp' = [NoOp EXCEPT !.op = "put", !.id = s.id, !.put = {s},
                                  !.old = { r \in db : r.id = s.id },
                                  !.prev = PrevOn(s.id),
                                  !.prevPut = IF PrevOn(s.id) = "put" THEN lastOp.put ELSE {}]
        /\ UNCHANGED <<dbQueue, envVars, auxVars, settingsVars, chatVars>>

StGet ==
    \E i \in 1..NumIds :
        /\ lastOp' = [NoOp EXCEPT !.op = "get", !.id = i, !.got = loadChatSession(db, i),
                                  !.prev = PrevOn(i),
                                  !.prevPut = IF PrevOn(i) = "put" THEN lastOp.put ELSE {},
                                  !.old = IF PrevOn(i) = "put" THEN lastOp.old ELSE {}]
        /\ UNCHANGED <<db, dbQueue, envVars, auxVars, settingsVars, chatVars>>

StDelete ==
    \E i \in 1..NumIds :
        /\ db' = deleteChatSession(db, i)
        /\ lastOp' = [NoOp EXCEPT !.op = "delete", !.id = i,
                                  !.old = { r \in db : r.id = i }]
        /\ UNCHANGED <<dbQueue, envVars, auxVars, settingsVars, chatVars>>

StGetAll ==
    /\ lastOp' = [NoOp EXCEPT !.op = "getAll", !.list = loadAllChatSessions(db)]
    /\ UNCHANGED <<db, dbQueue, envVars, auxVars, settingsVars, chatVars>>

StoreNext == StPut \/ StGet \/ StDelete \/ StGetAll

StoreSpec == StoreInit /\ [][StoreNext]_vars

\* ------------------------------------------------------------------ messages
\* Message; model = <<>>, provider = "", reasoningEffort = "" and
\* tokensPerSecond = <<>> stand for undefined.
UserMessage(content, timestamp) ==
    [role |-> "user", content |-> content, model |-> <<>>, provider |-> "",
     reasoningEffort |-> "", tokensPerSecond |-> <<>>, timestamp |-> timestamp]

usedModel_oneDefault(cfg) ==
    IF cfg.model # <<>> THEN cfg.model ELSE <<"gpt-3.5-turbo">>

usedModel(cfg) ==
    IF cfg.model # <<>> THEN cfg.model
    ELSE IF cfg.provider = "ollama" THEN <<"llama2">> ELSE <<"gpt-3.5-turbo">>

\* shouldUseReasoning && config.reasoningEffort
usesReasoning_anyEffort(cfg) == isReasoningModel(cfg.model)

usesReasoning(cfg) == isReasoningModel(cfg.model) /\ cfg.reasoningEffort # ""

\* ------------------------------------------------------------------ request
chatEndpoint(cfg) ==
    IF cfg.provider = "ollama" THEN cfg.endpoint \o <<"/api/chat">>
    ELSE IF cfg.provider = "gpt4all" THEN <<"/api/gpt4all/v1/chat/completions">>
    ELSE cfg.endpoint \o <<"/v1/chat/completions">>

apiMessages_noPrior(prompt, prior, userInput) ==
    (IF prompt # <<>> THEN <<[role |-> "system", content |-> prompt]>> ELSE <<>>)
    \o <<[role |-> "user", content |-> userInput]>>

apiMessages(prompt, prior, userInput) ==
    (IF prompt # <<>> THEN <<[role |-> "system", content |-> prompt]>> ELSE <<>>)
    \o [ k \in 1..Len(prior) |-> [role |-> prior[k].role, content |-> prior[k].content] ]
    \o <<[role |-> "user", content |-> userInput]>>

\* requestBody; a field that is left out of the object is <<>>.
requestBody_gpt4allAsOpenai(cfg, msgs) ==
    IF cfg.provider = "ollama"
    THEN [model |-> usedModel(cfg), messages |-> msgs, stream |-> <<FALSE>>,
          think |-> IF usesReasoning(cfg) THEN <<cfg.reasoningEffort>> ELSE <<>>,
          reasoning_effort |-> <<>>]
    ELSE [model |-> usedModel(cfg), messages |-> msgs, stream |-> <<>>,
          think |-> <<>>,
          reasoning_effort |-> IF usesReasoning(cfg) THEN <<cfg.reasoningEffort>> ELSE <<>>]

requestBody(cfg, msgs) ==
    IF cfg.provider = "ollama"
    THEN [model |-> usedModel(cfg), messages |-> msgs, stream |-> <<FALSE>>,
          think |-> IF usesReasoning(cfg) THEN <<cfg.reasoningEffort>> ELSE <<>>,
          reasoning_effort |-> <<>>]
    ELSE IF cfg.provider = "gpt4all"
    THEN [model |-> usedModel(cfg), messages |-> msgs, stream |-> <<>>,
          think |-> <<>>, reasoning_effort |-> <<>>]
    ELSE [model |-> usedModel(cfg), messages |-> msgs, stream |-> <<>>,
          think |-> <<>>,
          reasoning_effort |-> IF usesReasoning(cfg) THEN <<cfg.reasoningEffort>> ELSE <<>>]

chatRequest(cfg, prompt, prior, userInput) ==
    [endpoint |-> chatEndpoint(cfg),
     authorization |-> IF cfg.apiKey # <<>> THEN <<"Bearer ">> \o cfg.apiKey ELSE <<>>,
     body |-> requestBody(cfg, apiMessages(prompt, prior, userInput))]

\* ------------------------------------------------------------------ response
\* What the server may answer.  kind "reject": fetch() rejects (transport
\* failure).  Otherwise a response with its status; text = what res.text()
\* resolves to and json = what res.json() resolves to, each <<>> when that
\* promise rejects (an undecodable body).  A decoded body is an object with
\* the fields the code reads, each <<>> when absent, or null.
Data(isNull, msgContent, evalCount, choiceContent, totalTokens) ==
    [isNull |-> isNull, message_content |-> msgContent, eval_count |-> evalCount,
     choice_content |-> choiceContent, total_tokens |-> totalTokens]

Bodies ==
    { Data(FALSE, << <<"h","i">> >>, <<20>>, << <<"h","i">> >>, <<20>>) }

NoResponse == [kind |-> "none", ok |-> FALSE, status |-> "", text |-> <<>>, json |-> <<>>]

Outcomes ==
    { [NoResponse EXCEPT !.kind = "reject"] }
    \cup { [NoResponse EXCEPT !.kind = "response", !.status = "500", !.text = t] :
             t \in { << <<"boom">> >>, <<>> } }
    \cup { [NoResponse EXCEPT !.kind = "response", !.ok = TRUE, !.status = "200", !.json = j] :
             j \in { <<b>> : b \in Bodies } \cup { <<>> } }

\* String(e) of what the try block throws, after t('error').
errorContent(thrown) == <<"t('error')">> \o thrown

httpError(status, errorText) == <<"Error: ", "HTTP ", status, ": ">> \o errorText

fetchRejected == <<"TypeError: ", "Failed to fetch">>
bodyRejected == <<"TypeError: ", "body stream">>
jsonRejected == <<"SyntaxError: ", "Unexpected token">>
nullDeref == <<"TypeError: ", "Cannot read properties of null">>

\* data.message?.content || "(no response)", data.choices?.[0]?.message?.content || ...
aiMsg_noFallback(provider, data) ==
    LET found == IF provider = "ollama" THEN data.message_content ELSE data.choice_content
    IN  IF found # <<>> THEN found[1] ELSE <<"(no response)">>

aiMsg(provider, data) ==
    LET found == IF provider = "ollama" THEN data.message_content ELSE data.choice_content
    IN  IF found # <<>> /\ found[1] # <<>> THEN found[1] ELSE <<"(no response)">>

totalTokens(provider, data) ==
    IF provider = "ollama" THEN data.eval_count ELSE data.total_tokens

tokensPerSecond(tokens, elapsedMs) ==
    IF tokens # <<>> /\ tokens[1] # 0 /\ elapsedMs > 0
    THEN <<tokens[1] * 1000, elapsedMs>>
    ELSE <<>>

AssistantMessage(cfg, data, startTime, endTime) ==
    [role |-> "assistant", content |-> aiMsg(cfg.provider, data),
     model |-> usedModel(cfg), provider |-> cfg.provider,
     reasoningEffort |-> IF usesReasoning(cfg) THEN cfg.reasoningEffort ELSE "",
     tokensPerSecond |-> tokensPerSecond(totalTokens(cfg.provider, data), endTime - startTime),
     timestamp |-> endTime]

ErrorMessage(cfg, thrown, timestamp) ==
    [role |-> "assistant", content |-> errorContent(thrown),
     model |-> usedModel(cfg), provider |-> cfg.provider,
     reasoningEffort |-> "", tokensPerSecond |-> <<>>, timestamp |-> timestamp]

\* ------------------------------------------------------------------ Chat: persistence
\* The session record the save effect builds.
sessionTitle_lastUser(msgs) ==
    LET users == { k \in 1..Len(msgs) : msgs[k].role = "user" }
    IN  IF users = {} THEN <<"New Chat">>
        ELSE LET last == CHOOSE k \in users : \A j \in users : k >= j
                 title == slice(msgs[last].content, 0, 50)
             IN  IF title # <<>> THEN title ELSE <<"New Chat">>

sessionTitle(msgs) ==
    LET users == { k \in 1..Len(msgs) : msgs[k].role = "user" }
    IN  IF users = {} THEN <<"New Chat">>
        ELSE LET first == CHOOSE k \in users : \A j \in users : k <= j
                 title == slice(msgs[first].content, 0, 50)
             IN  IF title # <<>> THEN title ELSE <<"New Chat">>

sessionRecord(id, msgs, time) ==
    [id |-> id, title |-> sessionTitle(msgs), messages |-> msgs,
     createdAt |-> time, updatedAt |-> time]

\* A storage transaction: op is "put", "get", "getAll" or "delete"; then is
\* what the caller does with the result: "refresh" (save effect, mount),
\* "load" (loadSession), "deleted" and "listed" (deleteSession, which keeps
\* the currentSessionId of the render it was called in).
NoTx == [op |-> "none", id |-> 0, session |-> {}, then |-> "none", current |-> 0]

\* useEffect(..., [messages, currentSessionId]) after a render with new
\* messages or a new session id: the transactions it creates.
saveEffect_idOnly(id, msgs) ==
    IF msgs = <<>> \/ id = currentSessionId THEN <<>>
    ELSE << [NoTx EXCEPT !.op = "put", !.id = id,
                         !.session = {sessionRecord(id, msgs, now)}, !.then = "saved"] >>

saveEffect_unguarded(id, msgs) ==
    << [NoTx EXCEPT !.op = "put", !.id = id,
                    !.session = {sessionRecord(id, msgs, now)}, !.then = "saved"] >>

saveEffect(id, msgs) ==
    IF msgs = <<>> THEN <<>>
    ELSE << [NoTx EXCEPT !.op = "put", !.id = id,
                         !.session = {sessionRecord(id, msgs, now)}, !.then = "saved"] >>

IsRead(tx) == tx.op \in {"get", "getAll"}

\* The queue after the render of (id, msgs) has run the save effect.
afterRender(queue, id, msgs) ==
    /\ dbQueue' = queue \o saveEffect(id, msgs)
    /\ overlapped' = (overlapped \/ (saveEffect(id, msgs) # <<>> /\
                                      \E k \in 1..Len(queue) : queue[k].op = "put"))

\* Transactions on the one object store run in the order they were created;
\* read-only ones may overlap each other, so any of the reads at the head of
\* the queue may be the next to deliver its result.
canRun_anyOrder(k) == k \in 1..Len(dbQueue)

canRun(k) ==
    /\ k \in 1..Len(dbQueue)
    /\ k = 1 \/ \A j \in 1..k : IsRead(dbQueue[j])

without(queue, k) == SubSeq(queue, 1, k - 1) \o SubSeq(queue, k + 1, Len(queue))

\* saveChatSession(session).then(() => loadAllChatSessions()...): the queue
\* once a save has completed.
afterSave_noRefresh(rest) == rest

afterSave(rest) == Append(rest, [NoTx EXCEPT !.op = "getAll", !.then = "refresh"])

\* ------------------------------------------------------------------ Chat: actions
\* The guard of sendMessage: if (!input || loading) return.
sendGuard_none == TRUE

sendGuard == input # <<>> /\ ~loading

Inputs == { <<"a">> }

\* onChange of the input field (disabled while loading).
setInputFrom(texts) ==
    /\ ~loading
    /\ \E v \in texts \cup {<<>>} : input' = v
    /\ UNCHANGED <<storeVars, envVars, auxVars, settingsVars, messages, loading, currentSessionId,
                   chatSessions, sends, httpCalls, nBusy, actions, overlapped>>

setInput == setInputFrom(Inputs)

\* sendMessage up to its first await (the fetch of the chat request).
sendMessage ==
    /\ (sendGuard \/ loading) => actions < MaxActions
    /\ actions' = IF sendGuard \/ loading THEN actions + 1 ELSE actions
    /\ nBusy' = IF loading THEN nBusy + 1 ELSE nBusy
    /\ IF sendGuard
       THEN /\ input' = <<>>
            /\ loading' = TRUE
            /\ messages' = Append(messages, UserMessage(input, now))
            /\ sends' = Append(sends,
                   [pc |-> "fetch", config |-> config, startTime |-> now, endTime |-> 0,
                    request |-> chatRequest(config, systemPrompt, messages, input),
                    res |-> NoResponse])
            /\ httpCalls' = httpCalls + 1
            /\ afterRender(dbQueue, currentSessionId, messages')
       ELSE UNCHANGED <<input, loading, messages, sends, httpCalls, dbQueue, overlapped>>
    /\ UNCHANGED <<db, lastOp, envVars, auxVars, settingsVars, currentSessionId, chatSessions>>

\* The end of a sendMessage call: the assistant or error message is appended
\* (setMessages(prev => [...prev, m])), then setLoading(false); the render
\* that follows runs the save effect.
finishSend_noCatch(k, message) ==
    /\ IF message.content[1] = "t('error')"
       THEN UNCHANGED <<messages, loading, dbQueue, overlapped>>
       ELSE /\ messages' = Append(messages, message)
            /\ loading' = FALSE
            /\ afterRender(dbQueue, currentSessionId, messages')
    /\ sends' = without(sends, k)
    /\ UNCHANGED <<db, lastOp, envVars, auxVars, settingsVars, input, currentSessionId, chatSessions,
                   httpCalls, nBusy, actions>>

finishSend(k, message) ==
    /\ messages' = Append(messages, message)
    /\ loading' = FALSE
    /\ sends' = without(sends, k)
    /\ afterRender(dbQueue, currentSessionId, messages')
    /\ UNCHANGED <<db, lastOp, envVars, auxVars, settingsVars, input, currentSessionId, chatSessions,
                   httpCalls, nBusy, actions>>

\* await fetch(...) settles with one of the answers outs.
fetchSettlesWith(outs) ==
    \E k \in 1..Len(sends), out \in outs :
        /\ sends[k].pc = "fetch"
        /\ IF out.kind = "reject"
           THEN finishSend(k, ErrorMessage(sends[k].config, fetchRejected, now))
           ELSE /\ sends' = [sends EXCEPT ![k].pc = "body", ![k].endTime = now, ![k].res = out]
                /\ UNCHANGED <<storeVars, envVars, auxVars, settingsVars, messages, input, loading,
                               currentSessionId, chatSessions, httpCalls, nBusy, actions,
                               overlapped>>

fetchSettles == fetchSettlesWith(Outcomes)

\* await res.text() (not ok) or await res.json() (ok) settles, and the rest
\* of sendMessage runs.
bodySettles ==
    \E k \in 1..Len(sends) :
        /\ sends[k].pc = "body"
        /\ LET s == sends[k]
               cfg == s.config
           IN  IF ~s.res.ok
               THEN IF s.res.text = <<>>
                    THEN finishSend(k, ErrorMessage(cfg, bodyRejected, now))
                    ELSE finishSend(k, ErrorMessage(cfg, httpError(s.res.status, s.res.text[1]), now))
               ELSE IF s.res.json = <<>>
                    THEN finishSend(k, ErrorMessage(cfg, jsonRejected, now))
                    ELSE IF s.res.json[1].isNull
                         THEN finishSend(k, ErrorMessage(cfg, nullDeref, now))
                         ELSE finishSend(k, AssistantMessage(cfg, s.res.json[1],
                                                             s.startTime, s.endTime))

\* createNewChat, and the render that follows (the save effect runs and
\* returns at its guard).
createNewChat ==
    /\ actions < MaxActions
    /\ actions' = actions + 1
    /\ currentSessionId' = now
    /\ messages' = <<>>
    /\ afterRender(dbQueue, currentSessionId', messages')
    /\ UNCHANGED <<db, lastOp, envVars, auxVars, settingsVars, input, loading, chatSessions, sends,
                   httpCalls, nBusy>>

\* loadSession(id) up to its await, for a session of the listing.
loadSession ==
    \E k \in 1..Len(chatSessions) :
        /\ actions < MaxActions
        /\ actions' = actions + 1
        /\ dbQueue' = Append(dbQueue,
               [NoTx EXCEPT !.op = "get", !.id = chatSessions[k].id, !.then = "load"])
        /\ UNCHANGED <<db, lastOp, envVars, auxVars, settingsVars, messages, input, loading, currentSessionId,
                       chatSessions, sends, httpCalls, nBusy, overlapped>>

\* deleteSession(id) up to its first await, for a session of the listing.
deleteSession ==
    \E k \in 1..Len(chatSessions) :
        /\ actions < MaxActions
        /\ actions' = actions + 1
        /\ dbQueue' = Append(dbQueue,
               [NoTx EXCEPT !.op = "delete", !.id = chatSessions[k].id, !.then = "deleted",
                            !.current = currentSessionId])
        /\ UNCHANGED <<db, lastOp, envVars, auxVars, settingsVars, messages, input, loading, currentSessionId,
                       chatSessions, sends, httpCalls, nBusy, overlapped>>

\* A storage transaction completes and its caller resumes.
txCompletes ==
    \E k \in 1..Len(dbQueue) :
        /\ canRun(k)
        /\ LET tx == dbQueue[k]
               rest == without(dbQueue, k)
           IN  CASE tx.op = "put" ->
                      \* saveChatSession(session).then(() => loadAllChatSessions()...)
                      /\ db' = saveChatSession(db, CHOOSE r \in tx.session : TRUE)
                      /\ dbQueue' = afterSave(rest)
                      /\ UNCHANGED <<messages, currentSessionId, chatSessions, overlapped>>
                 [] tx.op = "getAll" /\ tx.then = "refresh" ->
                      \* .then(setChatSessions)
                      /\ chatSessions' = loadAllChatSessions(db)
                      /\ dbQueue' = rest
                      /\ UNCHANGED <<db, messages, currentSessionId, overlapped>>
                 [] tx.op = "get" ->
                      \* loadSession: if (session) { setCurrentSessionId; setMessages }
                      LET session == loadChatSession(db, tx.id)
                      IN  IF session = {}
                          THEN /\ dbQueue' = rest
                               /\ UNCHANGED <<db, messages, currentSessionId, chatSessions,
                                              overlapped>>
                          ELSE LET found == CHOOSE r \in session : TRUE
                               IN  /\ currentSessionId' = found.id
                                   /\ messages' = found.messages
                                   /\ afterRender(rest, found.id, found.messages)
                                   /\ UNCHANGED <<db, chatSessions>>
                 [] tx.op = "delete" ->
                      \* deleteSession: await deleteChatSession; then loadAllChatSessions()
                      /\ db' = deleteChatSession(db, tx.id)
                      /\ dbQueue' = Append(rest, [NoTx EXCEPT !.op = "getAll", !.id = tx.id,
                                                  !.then = "listed", !.current = tx.current])
                      /\ UNCHANGED <<messages, currentSessionId, chatSessions, overlapped>>
                 [] tx.op = "getAll" /\ tx.then = "listed" ->
                      \* deleteSession: setChatSessions; createNewChat() if it was current
                      /\ chatSessions' = loadAllChatSessions(db)
                      /\ IF tx.id = tx.current
                         THEN /\ currentSessionId' = now
                              /\ messages' = <<>>
                              /\ afterRender(rest, currentSessionId', messages')
                         ELSE /\ dbQueue' = rest
                              /\ UNCHANGED <<messages, currentSessionId, overlapped>>
                      /\ UNCHANGED db
        /\ deleted' = IF dbQueue[k].then = "listed" THEN deleted \cup {dbQueue[k].id} ELSE deleted
        /\ UNCHANGED <<lastOp, envVars, probe, nFailed, failedAt, settingsVars, input, loading,
                       sends, httpCalls, nBusy, actions>>

\* Time passes.
tick ==
    /\ now < MaxTime
    /\ now' = now + 1
    /\ UNCHANGED <<storeVars, config, systemPrompt, auxVars, chatVars, settingsVars>>

\* ------------------------------------------------------------------ Spec
\* A session an earlier run of the program left in the store.
EarlierSession ==
    sessionRecord(0, << UserMessage(<<"a">>, 0),
                        ErrorMessage(DefaultConfig, fetchRejected, 0) >>, 0)

ChatConfigs == { DefaultConfig }

\* The Chat component after it is mounted: the mount effect has asked for
\* the listing.
Init ==
    /\ db \in { {}, {EarlierSession} }
    /\ lastOp = NoOp
    /\ dbQueue = << [NoTx EXCEPT !.op = "getAll", !.then = "refresh"] >>
    /\ now = 1
    /\ config \in ChatConfigs
    /\ systemPrompt = <<>>
    /\ messages = <<>>
    /\ input = <<>>
    /\ loading = FALSE
    /\ currentSessionId = 1
    /\ chatSessions = <<>>
    /\ sends = <<>>
    /\ httpCalls = 0
    /\ nBusy = 0
    /\ actions = 0
    /\ overlapped = FALSE
    /\ SettingsUnmounted

Next ==
    \/ setInput
    \/ sendMessage
    \/ fetchSettles
    \/ bodySettles
    \/ createNewChat
    \/ loadSession
    \/ deleteSession
    \/ txCompletes
    \/ tick

Spec == Init /\ [][Next]_vars

\* The transport settles every request and the storage completes every
\* transaction.
FairSpec ==
    Spec /\ WF_vars(fetchSettles) /\ WF_vars(bodySettles) /\ WF_vars(txCompletes)

\* ------------------------------------------------------------------ ResumedSpec
\* The Chat component after the user has opened the stored session from the
\* sidebar and storage has settled: loadSession set the session id and the
\* messages, the save effect stored them again, the listing was refreshed.
ResumedSession ==
    sessionRecord(EarlierSession.id, EarlierSession.messages, 1)

ResumedInit ==
    /\ db = {ResumedSession}
    /\ lastOp = NoOp
    /\ dbQueue = <<>>
    /\ now = 1
    /\ config \in ChatConfigs
    /\ systemPrompt = <<>>
    /\ messages = ResumedSession.messages
    /\ input = <<>>
    /\ loading = FALSE
    /\ currentSessionId = ResumedSession.id
    /\ chatSessions = loadAllChatSessions(db)
    /\ sends = <<>>
    /\ httpCalls = 0
    /\ nBusy = 0
    /\ actions = 0
    /\ overlapped = FALSE
    /\ SettingsUnmounted

ResumedSpec == ResumedInit /\ [][Next]_vars

\* ------------------------------------------------------------------ TitleSpec
\* Texts typed by the user: a short one and one longer than a title.
TitleInputs == { <<"a">>, [k \in 1..LongLen |-> "x"] }

typeText == setInputFrom(TitleInputs)

\* The state after this run of the program: the user submitted "a" in the
\* first session (id 1) at time 1, pressed New chat at time 2 while the
\* request was pending (new session, id 2), and the request failed: the
\* error message is the only message of the new session.  Both sessions
\* have been saved and listed.
TitleInit ==
    /\ db = { sessionRecord(1, << UserMessage(<<"a">>, 1) >>, 1),
              sessionRecord(2, << ErrorMessage(DefaultConfig, fetchRejected, 2) >>, 2) }
    /\ lastOp = NoOp
    /\ dbQueue = <<>>
    /\ now = 2
    /\ config = DefaultConfig
    /\ systemPrompt = <<>>
    /\ messages = << ErrorMessage(DefaultConfig, fetchRejected, 2) >>
    /\ input = <<>>
    /\ loading = FALSE
    /\ currentSessionId = 2
    /\ chatSessions = loadAllChatSessions(db)
    /\ sends = <<>>
    /\ httpCalls = 0
    /\ nBusy = 0
    /\ actions = 0
    /\ overlapped = FALSE
    /\ SettingsUnmounted

TitleNext ==
    \/ typeText
    \/ sendMessage
    \/ fetchSettles
    \/ bodySettles
    \/ createNewChat
    \/ loadSession
    \/ txCompletes

TitleSpec == TitleInit /\ [][TitleNext]_vars

\* ------------------------------------------------------------------ storage failures
\* A storage transaction (or the open of the database before it) fails: the
\* promise of the store function rejects and the store is left as it was.
\* The save effect and the mount effect end in .catch(console.error), so
\* the refresh that follows a save is not started; loadSession and
\* deleteSession have no handler, so the rest of the handler does not run.
txFails_awaited ==
    \E k \in 1..Len(dbQueue) :
        /\ canRun(k)
        /\ nFailed < MaxFailures
        /\ nFailed' = nFailed + 1
        /\ failedAt' = httpCalls
        /\ dbQueue' = without(dbQueue, k)
        /\ messages' = Append(messages, ErrorMessage(config, fetchRejected, now))
        /\ loading' = FALSE
        /\ UNCHANGED <<db, lastOp, envVars, probe, deleted, settingsVars, input,
                       currentSessionId, chatSessions, sends, httpCalls, nBusy, actions,
                       overlapped>>

txFails ==
    \E k \in 1..Len(dbQueue) :
        /\ canRun(k)
        /\ nFailed < MaxFailures
        /\ nFailed' = nFailed + 1
        /\ failedAt' = httpCalls
        /\ dbQueue' = without(dbQueue, k)
        /\ UNCHANGED <<db, lastOp, envVars, probe, deleted, chatVars, settingsVars>>

FailNext == Next \/ txFails

FailSpec == Init /\ [][FailNext]_vars

\* The transport settles every request; the storage may fail or stall.
FairFailSpec == FailSpec /\ WF_vars(fetchSettles) /\ WF_vars(bodySettles)

\* ------------------------------------------------------------------ Settings: requests
\* defaultEndpoints of the provider select.
defaultEndpoints(provider) ==
    CASE provider = "openai" -> <<"https://api.openai.com">>
      [] provider = "lmstudio" -> <<"http://localhost:1234">>
      [] provider = "gpt4all" -> <<"http://localhost:4891">>
      [] provider = "ollama" -> <<"http://localhost:11434">>

requiresAuth(cfg) == cfg.provider = "openai"

modelsEndpoint(cfg) ==
    IF cfg.provider = "ollama" THEN cfg.endpoint \o <<"/api/tags">>
    ELSE IF cfg.provider = "gpt4all" THEN <<"/api/gpt4all/v1/models">>
    ELSE cfg.endpoint \o <<"/v1/models">>

modelsRequest(cfg) ==
    [endpoint |-> modelsEndpoint(cfg),
     authorization |-> IF cfg.apiKey # <<>> THEN <<"Bearer ">> \o cfg.apiKey ELSE <<>>]

\* ------------------------------------------------------------------ Settings: responses
Phi == <<"p","h","i">>
O1 == <<"O","1">>

\* The model lists a server may return.
Catalogs == { <<Phi, O1>>, <<O1>> }

\* What the server may answer to the model-list request.  kind "reject":
\* fetch() rejects.  Otherwise a response; text = what res.text() resolves
\* to, json = what res.json() resolves to (<<>> when it rejects): an object
\* whose list (data.models or data.data) is names[1], or absent.
NoListing == [kind |-> "none", ok |-> FALSE, status |-> "", statusText |-> <<>>,
              text |-> <<>>, json |-> <<>>]

ListOutcomes ==
    { [NoListing EXCEPT !.kind = "reject"] }
    \cup { [NoListing EXCEPT !.kind = "response", !.status = "401",
                             !.statusText = <<"Unauthorized">>, !.text = t] :
             t \in { <<"denied">>, <<>> } }
    \cup { [NoListing EXCEPT !.kind = "response", !.ok = TRUE, !.status = "200", !.json = j] :
             j \in { <<>>, << [names |-> <<>>] >> }
                   \cup { << [names |-> <<c>>] >> : c \in Catalogs } }

\* What the server may answer to the detail lookup of one ollama model: the
\* decoded body has modelfile (<<>> when absent) and parameters (<<>> when
\* absent).
NoDetail == [kind |-> "none", ok |-> FALSE, json |-> <<>>]

Details ==
    { [modelfile |-> <<"R","E","A","S","O","N","I","N","G">>, parameters |-> <<>>],
      [modelfile |-> <<>>, parameters |-> << <<"s","t","o","p">> >>] }

DetailOutcomes ==
    { [NoDetail EXCEPT !.kind = "reject"],
      [NoDetail EXCEPT !.kind = "response"],
      [NoDetail EXCEPT !.kind = "response", !.ok = TRUE] }
    \cup { [NoDetail EXCEPT !.kind = "response", !.ok = TRUE, !.json = <<d>>] : d \in Details }

\* JSON.stringify(detail.parameters || {})
stringify(parameters) ==
    IF parameters = <<>> THEN <<"{", "}">>
    ELSE <<"\"">> \o parameters[1] \o <<"\"">>

\* if (detailRes.ok) { detail = await detailRes.json(); ... } inside try:
\* the lookup got a detail.
lookupOk(out) == out.kind = "response" /\ out.ok /\ out.json # <<>>

lookup(out) ==
    IF lookupOk(out) THEN [failed |-> FALSE, detail |-> out.json]
    ELSE [failed |-> TRUE, detail |-> <<>>]

\* The ModelInfo of one ollama model, from the answer to its detail lookup.
detailInfo_noFallback(name, out) ==
    IF lookupOk(out)
    THEN LET detail == out.json[1]
             modelfile == toLowerCase(detail.modelfile)
             parameters == toLowerCase(stringify(detail.parameters))
         IN  [id |-> name,
              supportsReasoning |->
                  \/ includes(modelfile, <<"r","e","a","s","o","n","i","n","g">>)
                  \/ includes(parameters, <<"r","e","a","s","o","n","i","n","g">>)
                  \/ isReasoningModel(name)]
    ELSE [id |-> name, supportsReasoning |-> FALSE]

detailInfo(name, out) ==
    IF lookupOk(out)
    THEN LET detail == out.json[1]
             modelfile == toLowerCase(detail.modelfile)
             parameters == toLowerCase(stringify(detail.parameters))
         IN  [id |-> name,
              supportsReasoning |->
                  \/ includes(modelfile, <<"r","e","a","s","o","n","i","n","g">>)
                  \/ includes(parameters, <<"r","e","a","s","o","n","i","n","g">>)
                  \/ isReasoningModel(name)]
    ELSE [id |-> name, supportsReasoning |-> isReasoningModel(name)]

\* The ModelInfo of a model of an OpenAI-compatible server.
modelInfo(id) == [id |-> id, supportsReasoning |-> isReasoningModel(id)]

\* ------------------------------------------------------------------ Settings: fetch effect
\* The state the effect and fetchModels work on, as one record.
Settings ==
    [availableModels |-> availableModels, loadingModels |-> loadingModels,
     modelsError |-> modelsError, fetches |-> fetches, latest |-> latest]

\* A fetchModels call suspended at its first await; config is the
\* configuration of the render whose effect started it.
newFetch(st, cfg) ==
    [seq |-> st.latest.seq + 1, config |-> cfg, pc |-> "list",
     request |-> modelsRequest(cfg), names |-> <<>>, details |-> <<>>]

\* The body of useEffect(..., [config.provider, config.endpoint, config.apiKey]).
fetchEffect(st, cfg) ==
    IF cfg.endpoint = <<>> THEN [st EXCEPT !.latest.kind = "noEndpoint"]
    ELSE IF requiresAuth(cfg) /\ cfg.apiKey = <<>>
    THEN [st EXCEPT !.availableModels = <<>>, !.latest.kind = "incomplete"]
    ELSE [st EXCEPT !.loadingModels = TRUE,
                    !.modelsError = <<>>,
                    !.fetches = Append(@, newFetch(st, cfg)),
                    !.latest = [NoFetch EXCEPT !.kind = "fetch", !.seq = st.latest.seq + 1,
                                               !.overlap = (st.fetches # <<>>)]]

depsChanged(old, new) ==
    \/ old.provider # new.provider
    \/ old.endpoint # new.endpoint
    \/ old.apiKey # new.apiKey

\* The render that follows the state updates st and setConfig(cfg), and the
\* effect it runs when a dependency changed.
render(st, cfg) ==
    LET after == IF depsChanged(config, cfg) THEN fetchEffect(st, cfg) ELSE st
    IN  /\ after.latest.seq <= MaxFetches
        /\ config' = cfg
        /\ availableModels' = after.availableModels
        /\ loadingModels' = after.loadingModels
        /\ modelsError' = after.modelsError
        /\ fetches' = after.fetches
        /\ latest' = after.latest

\* ------------------------------------------------------------------ Settings: the form
Providers == { "openai", "lmstudio", "ollama" }
Endpoints == { <<>>, <<"http://host">> }
ApiKeys == { <<>>, <<"sk">> }
Efforts == { "high" }

\* An edit of the form: setConfig(cfg) and the render that follows.
edit(cfg) ==
    /\ edits < MaxEdits
    /\ edits' = edits + 1
    /\ cfg # config
    /\ render(Settings, cfg)
    /\ UNCHANGED <<storeVars, now, systemPrompt, auxVars, chatVars, resolved>>

\* onChange of the provider select
setProvider ==
    \E p \in Providers :
        edit([config EXCEPT !.provider = p, !.endpoint = defaultEndpoints(p), !.model = <<>>])

\* onChange of the endpoint field
setEndpoint ==
    \E e \in Endpoints : edit([config EXCEPT !.endpoint = e])

\* onChange of the key field
setApiKey ==
    \E key \in ApiKeys : edit([config EXCEPT !.apiKey = key])

\* onChange of the model select, which is shown when no fetch is loading, no
\* error is shown and the list is not empty.
setModel ==
    /\ ~ loadingModels
    /\ modelsError = <<>>
    /\ \E k \in 1..Len(availableModels) : edit([config EXCEPT !.model = availableModels[k].id])

\* onChange of the effort select, which is shown when the configured model is
\* in the list and supports reasoning.
setReasoningEffort ==
    /\ \E k \in 1..Len(availableModels) :
           availableModels[k].id = config.model /\ availableModels[k].supportsReasoning
    /\ \E e \in Efforts : edit([config EXCEPT !.reasoningEffort = e])

\* ------------------------------------------------------------------ Settings: fetchModels
\* The try block ends: setAvailableModels, the model reassignment with the
\* configuration the call was started with, then finally.
fetchSucceeds(k, modelInfos, lookups) ==
    LET f == fetches[k]
        cfg == f.config
        st == [Settings EXCEPT !.availableModels = modelInfos,
                               !.loadingModels = FALSE,
                               !.fetches = without(fetches, k),
                               !.latest = IF @.seq = f.seq
                                          THEN [@ EXCEPT !.done = TRUE, !.models = modelInfos]
                                          ELSE @]
        write == /\ modelInfos # <<>>
                 /\ \/ cfg.model = <<>>
                    \/ \A j \in 1..Len(modelInfos) : modelInfos[j].id # cfg.model
    IN  /\ render(st, IF write THEN [cfg EXCEPT !.model = modelInfos[1].id] ELSE config)
        /\ resolved' = [NoneResolved EXCEPT
               !.seq = f.seq, !.ok = TRUE, !.lookups = lookups, !.wrote = write,
               !.status = "200",
               !.last = IF lookups = <<>> THEN 0
                        ELSE CHOOSE i \in 1..Len(f.details) : ~ f.details[i].settled]
        /\ UNCHANGED <<storeVars, now, systemPrompt, auxVars, chatVars, edits>>

\* The catch block, then finally.
fetchFails_keepList(k, thrown, out) ==
    LET f == fetches[k]
        st == [Settings EXCEPT !.modelsError = thrown,
                               !.loadingModels = FALSE,
                               !.fetches = without(fetches, k),
                               !.latest = IF @.seq = f.seq
                                          THEN [@ EXCEPT !.done = TRUE, !.error = thrown]
                                          ELSE @]
    IN  /\ render(st, config)
        /\ resolved' = [NoneResolved EXCEPT !.seq = f.seq, !.status = out.status,
                                            !.statusText = out.statusText, !.text = out.text]
        /\ UNCHANGED <<storeVars, now, systemPrompt, auxVars, chatVars, edits>>

fetchFails(k, thrown, out) ==
    LET f == fetches[k]
        st == [Settings EXCEPT !.modelsError = thrown,
                               !.availableModels = <<>>,
                               !.loadingModels = FALSE,
                               !.fetches = without(fetches, k),
                               !.latest = IF @.seq = f.seq
                                          THEN [@ EXCEPT !.done = TRUE, !.error = thrown]
                                          ELSE @]
    IN  /\ render(st, config)
        /\ resolved' = [NoneResolved EXCEPT !.seq = f.seq, !.status = out.status,
                                            !.statusText = out.statusText, !.text = out.text]
        /\ UNCHANGED <<storeVars, now, systemPrompt, auxVars, chatVars, edits>>

PendingDetail == [settled |-> FALSE, out |-> NoDetail, info |-> modelInfo(<<>>)]

\* The model-list request settles and its body is read: await fetch(endpoint),
\* then await res.text() or await res.json(), up to the next await or the end.
listSettles ==
    \E k \in 1..Len(fetches), out \in ListOutcomes :
        /\ fetches[k].pc = "list"
        /\ LET cfg == fetches[k].config
           IN  IF out.kind = "reject" THEN fetchFails(k, fetchRejected, out)
               ELSE IF ~ out.ok
               THEN fetchFails(k, httpError(out.status,
                                  IF out.text # <<>> THEN out.text ELSE out.statusText), out)
               ELSE IF out.json = <<>> THEN fetchFails(k, jsonRejected, out)
               ELSE LET data == out.json[1]
                        names == IF data.names # <<>> THEN data.names[1] ELSE <<>>
                    IN  IF cfg.provider = "ollama" /\ names # <<>>
                        THEN /\ fetches' = [fetches EXCEPT
                                   ![k].pc = "details", ![k].names = names,
                                   ![k].details = [j \in 1..Len(names) |-> PendingDetail]]
                             /\ UNCHANGED <<storeVars, envVars, auxVars, chatVars, availableModels,
                                            loadingModels, modelsError, latest, resolved,
                                            edits>>
                        ELSE fetchSucceeds(k, [j \in 1..Len(names) |-> modelInfo(names[j])],
                                           <<>>)

\* Promise.all(modelNames.map(...)): the results in the order of the names,
\* not in the order in which the lookups settled.
promiseAll_lastFirst(settled) ==
    [j \in 1..Len(settled) |-> settled[Len(settled) + 1 - j].info]

promiseAll(settled) == [j \in 1..Len(settled) |-> settled[j].info]

\* The detail lookup of one model settles; when it was the last one,
\* Promise.all resolves and fetchModels goes on to its end.
detailSettles ==
    \E k \in 1..Len(fetches) :
        /\ fetches[k].pc = "details"
        /\ \E i \in 1..Len(fetches[k].names), out \in DetailOutcomes :
             /\ ~ fetches[k].details[i].settled
             /\ LET settled == [fetches[k].details EXCEPT
                                   ![i] = [settled |-> TRUE, out |-> out,
                                           info |-> detailInfo(fetches[k].names[i], out)]]
                IN  IF \A j \in 1..Len(settled) : settled[j].settled
                    THEN fetchSucceeds(k, promiseAll(settled),
                                          [j \in 1..Len(settled) |-> lookup(settled[j].out)])
                    ELSE /\ fetches' = [fetches EXCEPT ![k].details = settled]
                         /\ UNCHANGED <<storeVars, envVars, auxVars, chatVars, availableModels,
                                        loadingModels, modelsError, latest, resolved, edits>>

\* ------------------------------------------------------------------ CatalogSpec
CatalogConfigs ==
    { DefaultConfig,
      [DefaultConfig EXCEPT !.provider = "openai", !.endpoint = defaultEndpoints("openai")] }

\* The Settings component after it is mounted: the effect has run once.
CatalogInit ==
    /\ db = {}
    /\ lastOp = NoOp
    /\ dbQueue = <<>>
    /\ now = 1
    /\ config \in CatalogConfigs
    /\ systemPrompt = <<>>
    /\ messages = <<>>
    /\ input = <<>>
    /\ loading = FALSE
    /\ currentSessionId = 1
    /\ chatSessions = <<>>
    /\ sends = <<>>
    /\ httpCalls = 0
    /\ nBusy = 0
    /\ actions = 0
    /\ overlapped = FALSE
    /\ LET unmounted == [availableModels |-> <<>>, loadingModels |-> FALSE,
                         modelsError |-> <<>>, fetches |-> <<>>, latest |-> NoFetch]
           mounted == fetchEffect(unmounted, config)
       IN  /\ availableModels = mounted.availableModels
           /\ loadingModels = mounted.loadingModels
           /\ modelsError = mounted.modelsError
           /\ fetches = mounted.fetches
           /\ latest = mounted.latest
    /\ resolved = NoneResolved
    /\ edits = 0
    /\ probe = NoProbe
    /\ nFailed = 0
    /\ failedAt = 0
    /\ deleted = {}

CatalogNext ==
    \/ setProvider
    \/ setEndpoint
    \/ setApiKey
    \/ setModel
    \/ setReasoningEffort
    \/ listSettles
    \/ detailSettles

CatalogSpec == CatalogInit /\ [][CatalogNext]_vars

\* ------------------------------------------------------------------ RequestSpec
\* One send of the Chat component, for every configuration the Settings
\* form can produce, with and without a system prompt, in a new session
\* and in a session loaded from the store, answered in every way.
AllBodies ==
    Bodies
    \cup { Data(FALSE, <<>>, <<>>, <<>>, <<>>),
           Data(FALSE, << <<>> >>, <<0>>, << <<>> >>, <<0>>),
           Data(FALSE, << <<"h","i">> >>, <<0 - 5>>, << <<"h","i">> >>, <<0 - 5>>),
           Data(TRUE, <<>>, <<>>, <<>>, <<>>) }

AllOutcomes ==
    Outcomes
    \cup { [NoResponse EXCEPT !.kind = "response", !.ok = TRUE, !.status = "200", !.json = <<b>>] :
             b \in AllBodies }

AllProviders == { "openai", "lmstudio", "gpt4all", "ollama" }

RequestConfigs ==
    UNION { { [endpoint |-> e, apiKey |-> IF p = "openai" THEN <<"sk">> ELSE <<>>,
               provider |-> p, model |-> m, reasoningEffort |-> r] :
                e \in { defaultEndpoints(p), <<>> }, m \in { <<>>, O1, Phi },
                r \in { "", "high" } } :
            p \in AllProviders }

RequestInit ==
    /\ lastOp = NoOp
    /\ now = 1
    /\ config \in RequestConfigs
    /\ systemPrompt \in { <<>>, <<"be brief">> }
    /\ \/ /\ db = {}
          /\ currentSessionId = 1
          /\ messages = <<>>
       \/ /\ db = {EarlierSession}
          /\ currentSessionId = EarlierSession.id
          /\ messages = EarlierSession.messages
    /\ dbQueue = <<>>
    /\ chatSessions = loadAllChatSessions(db)
    /\ input = <<>>
    /\ loading = FALSE
    /\ sends = <<>>
    /\ httpCalls = 0
    /\ nBusy = 0
    /\ actions = MaxActions - 1
    /\ overlapped = FALSE
    /\ SettingsUnmounted

fetchAnswers == fetchSettlesWith(AllOutcomes)

RequestNext ==
    \/ setInput
    \/ sendMessage
    \/ fetchAnswers
    \/ bodySettles
    \/ txCompletes
    \/ tick

RequestSpec == RequestInit /\ [][RequestNext]_vars

\* ------------------------------------------------------------------ CapabilitySpec
\* The two capability checks applied once to an arbitrary identifier and
\* lookup answer.
Alphabet == { "o", "O", "1", "x" }

RECURSIVE Strings(_)
Strings(n) ==
    IF n = 0 THEN { <<>> }
    ELSE Strings(n - 1) \cup { Append(str, c) : str \in Strings(n - 1), c \in Alphabet }

Identifiers ==
    Strings(MaxIdLen)
    \cup { <<"G","P","T","-","o","s","s">>, <<"g","p","t","_","o","s","s">>,
           <<"d","e","e","p","s","e","e","k","-","R","1">>,
           <<"d","e","e","p","s","e","e","k","-","r">>,
           <<"m","y","-","R","e","a","s","o","n","i","n","g">>, <<"g","p","t","-","4","o">> }

classify ==
    /\ probe.out = <<>>
    /\ \E name \in Identifiers, out \in DetailOutcomes :
           probe' = [name |-> name, out |-> <<out>>,
                     byId |-> isReasoningModel(name),
                     extended |-> detailInfo(name, out).supportsReasoning]
    /\ UNCHANGED <<storeVars, envVars, chatVars, settingsVars, nFailed, failedAt, deleted>>

CapabilitySpec == StoreInit /\ [][classify]_vars

\* ------------------------------------------------------------------ claims: capability
\* Character a is letter b (lower-case) in either case.
SameLetter(a, b) ==
    a = b \/ \E u \in 1..Len(UpperChars) : UpperChars[u] = a /\ LowerChars[u] = b

\* The lower-case pattern occurs in the text, whatever the case of the text.
Occurs(text, pattern) ==
    \E k \in 0..(Len(text) - Len(pattern)) :
        \A j \in 1..Len(pattern) : SameLetter(text[k + j], pattern[j])

Patterns ==
    { <<"o","1">>, <<"r","e","a","s","o","n","i","n","g">>, <<"g","p","t","-","o","s","s">>,
      <<"d","e","e","p","s","e","e","k","-","r","1">> }

Capable(name) == \E pattern \in Patterns : Occurs(name, pattern)

\* C18: the identifier check is true exactly when the identifier contains
\* one of the four patterns in any case (so it is false for the empty
\* identifier); the extended check is true exactly when the detail the
\* lookup got mentions "reasoning" in any case or the identifier check is
\* true, and is the identifier check when the lookup got no detail.
C18_CapabilityDetection ==
    probe.out # <<>> =>
        /\ probe.byId = Capable(probe.name)
        /\ (probe.name = <<>> => ~ probe.byId)
        /\ LET out == probe.out[1]
           IN  IF out.kind = "response" /\ out.ok /\ out.json # <<>>
               THEN probe.extended =
                        \/ Occurs(out.json[1].modelfile, <<"r","e","a","s","o","n","i","n","g">>)
                        \/ /\ out.json[1].parameters # <<>>
                           /\ Occurs(out.json[1].parameters[1],
                                     <<"r","e","a","s","o","n","i","n","g">>)
                        \/ Capable(probe.name)
               ELSE probe.extended = Capable(probe.name)

\* C18 witness: an identifier with "O1" in upper case checked with a lookup
\* that failed: both checks are true.
C18_Witness ==
    /\ probe.out # <<>>
    /\ probe.name = <<"x", "O", "1">>
    /\ probe.out[1].kind = "reject"
    /\ probe.byId
    /\ probe.extended

\* The reasoning parameter of the chat request for provider p, the model
\* that was checked and effort "high".
ParameterFor(p) ==
    LET body == requestBody([DefaultConfig EXCEPT !.provider = p, !.model = probe.name,
                                                  !.reasoningEffort = "high"], <<>>)
    IN  body.think \o body.reasoning_effort

\* C28: a model that the catalog marks supportsReasoning (for ollama by
\* the check on its detail, for openai and lmstudio by its identifier) gets
\* the reasoning parameter in a chat request when the effort is set.
C28_CatalogAndRequestAgree ==
    (probe.out # <<>> /\ probe.name # <<>>) =>
        /\ probe.extended => ParameterFor("ollama") = <<"high">>
        /\ \A p \in {"openai", "lmstudio"} :
               modelInfo(probe.name).supportsReasoning => ParameterFor(p) = <<"high">>

\* ------------------------------------------------------------------ claims: request
\* The step in which sendMessage issues a request; Sent is that request.
Issues == Len(sends') = Len(sends) + 1

Sent == sends'[Len(sends')].request

\* C12: the message list of a chat request is the system message (only
\* when the system prompt is not empty), then every prior message of the
\* session as its {role, content} pair in order, then the user message with
\* the input, and nothing else; a request is only issued for an input that
\* is not empty.
C12_RequestComposition ==
    [][ Issues =>
            LET sent == Sent.body.messages
                off == IF systemPrompt # <<>> THEN 1 ELSE 0
            IN  /\ input # <<>>
                /\ Len(sent) = off + Len(messages) + 1
                /\ (off = 1 => sent[1] = [role |-> "system", content |-> systemPrompt])
                /\ \A j \in 1..Len(messages) :
                       sent[off + j] = [role |-> messages[j].role,
                                        content |-> messages[j].content]
                /\ sent[Len(sent)] = [role |-> "user", content |-> input]
      ]_vars

\* C12 witness: a pending request with the system message, two prior
\* messages and the user message.
C12_Witness ==
    /\ Len(sends) = 1
    /\ Len(sends[1].request.body.messages) = 4
    /\ sends[1].request.body.messages[1].role = "system"
    /\ sends[1].request.body.messages[3].role = "assistant"
    /\ sends[1].request.body.messages[4] = [role |-> "user", content |-> <<"a">>]

\* C13: an ollama request carries think, and an openai or lmstudio request
\* carries reasoning_effort, exactly when the configured model is
\* reasoning-capable by its identifier and reasoningEffort is set; the
\* value is the effort; the other field is absent.
C13_ReasoningParameter ==
    \A k \in 1..Len(sends) :
        LET cfg == sends[k].config
            body == sends[k].request.body
            wanted == Capable(cfg.model) /\ cfg.reasoningEffort # ""
        IN  /\ cfg.provider = "ollama" =>
                  /\ body.think = IF wanted THEN <<cfg.reasoningEffort>> ELSE <<>>
                  /\ body.reasoning_effort = <<>>
            /\ cfg.provider \in {"openai", "lmstudio"} =>
                  /\ body.reasoning_effort = IF wanted THEN <<cfg.reasoningEffort>> ELSE <<>>
                  /\ body.think = <<>>

\* C13 witness: a pending ollama request with think, sent for a
\* reasoning-capable model with the effort set.
C13_Witness ==
    /\ Len(sends) = 1
    /\ sends[1].config.provider = "ollama"
    /\ sends[1].config.model = O1
    /\ sends[1].request.body.think = <<"high">>

\* C14: a gpt4all request carries neither think nor reasoning_effort.
C14_Gpt4allNoReasoning ==
    \A k \in 1..Len(sends) :
        sends[k].config.provider = "gpt4all" =>
            /\ sends[k].request.body.think = <<>>
            /\ sends[k].request.body.reasoning_effort = <<>>

\* C14 witness: a pending gpt4all request for a reasoning-capable model
\* with an effort left in the configuration.
C14_Witness ==
    /\ Len(sends) = 1
    /\ sends[1].config.provider = "gpt4all"
    /\ sends[1].config.model = O1
    /\ sends[1].config.reasoningEffort = "high"
    /\ sends[1].request.body.think = <<>>

\* C15: no chat request is issued while the configured endpoint is empty.
C15_NoCallWithoutEndpoint ==
    [][ httpCalls' > httpCalls => config.endpoint # <<>> ]_vars

\* The step in which pending send k ends on a decoded 2xx body; Answer is
\* the message it appends.
EndsDecoded(k) ==
    /\ sends[k].pc = "body"
    /\ sends' = without(sends, k)
    /\ sends[k].res.ok
    /\ sends[k].res.json # <<>>
    /\ ~ sends[k].res.json[1].isNull

Answer == messages'[Len(messages')]

C17_RateIffCount ==
    [][ \A k \in 1..Len(sends) :
            LET data == sends[k].res.json[1]
                tokens == IF sends[k].config.provider = "ollama"
                          THEN data.eval_count ELSE data.total_tokens
                elapsed == sends[k].endTime - sends[k].startTime
            IN  EndsDecoded(k) =>
                    /\ Answer.tokensPerSecond # <<>> <=> (tokens # <<>> /\ elapsed > 0)
                    /\ Answer.tokensPerSecond # <<>> =>
                          /\ Answer.tokensPerSecond = <<tokens[1] * 1000, elapsed>>
                          /\ Answer.tokensPerSecond[1] > 0
                          /\ Answer.tokensPerSecond[2] > 0
      ]_vars

\* The reasoning parameter the request of pending send k carried (think
\* or reasoning_effort), <<>> when it carried none.
ReasoningSent(k) ==
    sends[k].request.body.think \o sends[k].request.body.reasoning_effort

\* C26: the message that ends a send has reasoningEffort set, to the effort
\* sent, exactly when it is an answer (not an error message) and the
\* request carried a reasoning parameter; otherwise it is unset.
C26_EffortRecordedIffSent ==
    [][ \A k \in 1..Len(sends) :
            (sends' = without(sends, k) /\ Len(messages') = Len(messages) + 1) =>
                Answer.reasoningEffort =
                    IF EndsDecoded(k) /\ ReasoningSent(k) # <<>>
                    THEN ReasoningSent(k)[1] ELSE ""
      ]_vars

\* C27: a chat request goes to {endpoint}/api/chat for ollama, to the
\* fixed path /api/gpt4all/v1/chat/completions for gpt4all, and to
\* {endpoint}/v1/chat/completions for openai and lmstudio; the model sent
\* is the configured one, or llama2 (ollama) / gpt-3.5-turbo (others) when
\* none is configured; the message that ends the send records the model
\* that was sent.
C27_EndpointAndModel ==
    [][ /\ Issues =>
              /\ Sent.endpoint =
                    CASE config.provider = "ollama" -> config.endpoint \o <<"/api/chat">>
                      [] config.provider = "gpt4all" -> <<"/api/gpt4all/v1/chat/completions">>
                      [] config.provider \in {"openai", "lmstudio"} ->
                             config.endpoint \o <<"/v1/chat/completions">>
              /\ Sent.body.model =
                    IF config.model # <<>> THEN config.model
                    ELSE IF config.provider = "ollama" THEN <<"llama2">>
                    ELSE <<"gpt-3.5-turbo">>
        /\ \A k \in 1..Len(sends) :
              (sends' = without(sends, k) /\ Len(messages') = Len(messages) + 1) =>
                  /\ Answer.role = "assistant"
                  /\ Answer.model = sends[k].request.body.model
      ]_vars

\* C27 witness: an ollama send with no model configured was answered; the
\* answer records llama2.
C27_Witness ==
    /\ ~ loading
    /\ httpCalls = 1
    /\ config.provider = "ollama"
    /\ config.model = <<>>
    /\ config.endpoint # <<>>
    /\ messages # <<>>
    /\ messages[Len(messages)].role = "assistant"
    /\ messages[Len(messages)].model = <<"llama2">>
    /\ messages[Len(messages)].content = <<"h", "i">>

\* ------------------------------------------------------------------ claims: storage failures
\* C19: a storage transaction that fails (an upsert, a listing refresh, a
\* read or a delete) leaves the message sequence, the input, the session
\* id and the controller state as they were; the controller is Sending
\* exactly while a chat request is pending, whatever failed before, so a
\* later send is accepted on the usual guard, and every send is answered.
C19_StorageFailureDoesNotBlock ==
    /\ [][ nFailed' # nFailed =>
              /\ messages' = messages
              /\ loading' = loading
              /\ sends' = sends
              /\ input' = input
              /\ currentSessionId' = currentSessionId
              /\ (ENABLED sendMessage)' = ENABLED sendMessage ]_vars
    /\ [](loading <=> Len(sends) = 1)
    /\ (loading ~> ~loading)

\* C19 witness: the first save of the session failed (of the four saves
\* one has left the queue and nothing is stored) while the first request
\* was the only one issued; a second send was accepted after that and has
\* been answered by the server.
C19_Witness ==
    /\ nFailed = 1
    /\ failedAt = 1
    /\ httpCalls = 2
    /\ db = {}
    /\ Cardinality({ k \in 1..Len(dbQueue) : dbQueue[k].op = "put" }) = 3
    /\ ~ loading
    /\ sends = <<>>
    /\ messages # <<>>
    /\ messages[Len(messages)].role = "assistant"
    /\ messages[Len(messages)].content = <<"h", "i">>

\* ------------------------------------------------------------------ claims: session lifecycle
\* C20: a save that replaces the stored record of a session keeps the
\* createdAt of that record.
C20_CreatedAtPreserved ==
    [][ \A r \in db : \A q \in db' : q.id = r.id => q.createdAt = r.createdAt ]_vars

\* ------------------------------------------------------------------ claims: interleavings
\* The messages of the session in which pending send k was submitted, as
\* {role, content} pairs: the request's list without its system message.
AskedIn(k) ==
    LET sent == sends[k].request.body.messages
    IN  IF sent[1].role = "system" THEN Tail(sent) ELSE sent

\* C21: the message that ends a send is appended to the sequence of the
\* session in which the send was submitted, directly after its user
\* message: at that step the active session is the one of the submit and
\* its messages are those of the request.
C21_ReplyInAskingSession ==
    [][ \A k \in 1..Len(sends) :
            (sends' = without(sends, k) /\ Len(messages') = Len(messages) + 1) =>
                /\ Len(messages) = Len(AskedIn(k))
                /\ \A j \in 1..Len(messages) :
                       /\ messages[j].role = AskedIn(k)[j].role
                       /\ messages[j].content = AskedIn(k)[j].content
                /\ messages[Len(messages)].timestamp = sends[k].startTime
                /\ SubSeq(messages', 1, Len(messages)) = messages
      ]_vars

\* C22: while the active session stays the same, the message sequence only
\* grows at its end: the sequence before a step is a prefix of the sequence
\* after it.
C22_AppendOnly ==
    [][ currentSessionId' = currentSessionId =>
            /\ Len(messages') >= Len(messages)
            /\ SubSeq(messages', 1, Len(messages)) = messages
      ]_vars

\* C23: the configuration write of a fetchModels call that ends changes
\* the model only: provider, endpoint, apiKey and reasoningEffort keep the
\* values they had just before the write.
C23_WriteTouchesModelOnly ==
    [][ (resolved'.seq # resolved.seq /\ resolved'.wrote) =>
            /\ config'.provider = config.provider
            /\ config'.endpoint = config.endpoint
            /\ config'.apiKey = config.apiKey
            /\ config'.reasoningEffort = config.reasoningEffort
      ]_vars

\* C24: once a deleteSession call has finished for a session id, the
\* store holds no record with that id.
C24_DeletedStaysDeleted ==
    \A r \in db : r.id \notin deleted

\* C25: loading a session does not write to the store: as long as no
\* message has been submitted (so that sessions are only loaded, created
\* empty or deleted), a stored record that is still in the store after a
\* step is the same record as before it.
C25_LoadIsReadOnly ==
    [][ httpCalls' = 0 =>
            \A r \in db : \A q \in db' : q.id = r.id => q = r ]_vars

\* C29: whenever no storage transaction is pending, the listing shown is
\* the listing of the store: the same records, by updatedAt descending;
\* and storage always gets there again.
C29_ListingConverges ==
    /\ [](dbQueue = <<>> =>
             /\ chatSessions = loadAllChatSessions(db)
             /\ { chatSessions[k] : k \in 1..Len(chatSessions) } = db
             /\ Len(chatSessions) = Cardinality(db)
             /\ \A k \in 1..Len(chatSessions) - 1 :
                    chatSessions[k].updatedAt >= chatSessions[k + 1].updatedAt)
    /\ []<>(dbQueue = <<>>)

\* C29 witness: storage is quiescent after two saves were pending at once
\* (so their two refreshes were in flight together), with two sessions
\* stored and listed, the newer one first.
C29_Witness ==
    /\ dbQueue = <<>>
    /\ overlapped
    /\ Cardinality(db) = 2
    /\ Len(chatSessions) = 2
    /\ chatSessions[1].updatedAt > chatSessions[2].updatedAt

\* ------------------------------------------------------------------ claims: catalog
\* The step in which fetchModels call k of the pre-state ends.
Ends(k) == resolved'.seq = fetches[k].seq /\ resolved.seq # fetches[k].seq

MetaMentionsReasoning(detail) ==
    \/ includes(toLowerCase(detail.modelfile), <<"r","e","a","s","o","n","i","n","g">>)
    \/ /\ detail.parameters # <<>>
       /\ includes(toLowerCase(detail.parameters[1]), <<"r","e","a","s","o","n","i","n","g">>)

\* C7: when a fetchModels call succeeds with a non-empty list, the
\* configured model becomes the first identifier of the list if it is unset
\* or not in the list, and otherwise the configuration is not written.
C7_ModelSelection ==
    [][ (resolved'.seq # resolved.seq /\ resolved'.ok /\ availableModels' # <<>>) =>
            IF \/ config.model = <<>>
               \/ \A j \in 1..Len(availableModels') : availableModels'[j].id # config.model
            THEN config'.model = availableModels'[1].id
            ELSE config' = config /\ ~ resolved'.wrote
      ]_vars

\* C8: an ollama fetchModels call whose model list was received ends
\* successfully whichever detail lookups fail: the list shown has one entry
\* per listed model, in order; the entry of a lookup that got a detail is
\* marked when the detail or the identifier mentions reasoning, the entry
\* of a failed lookup when the identifier does; and the call sets no error.
C8_PartialFailureIsolated ==
    [][ \A k \in 1..Len(fetches) :
            (fetches[k].pc = "details" /\ Ends(k)) =>
                LET names == fetches[k].names
                IN  /\ resolved'.ok
                    /\ Len(resolved'.lookups) = Len(names)
                    /\ Len(availableModels') = Len(names)
                    /\ \A j \in 1..Len(names) :
                          /\ availableModels'[j].id = names[j]
                          /\ availableModels'[j].supportsReasoning =
                                IF resolved'.lookups[j].failed
                                THEN isReasoningModel(names[j])
                                ELSE \/ MetaMentionsReasoning(resolved'.lookups[j].detail[1])
                                     \/ isReasoningModel(names[j])
                    /\ modelsError' \in {modelsError, <<>>}
      ]_vars

\* C8 witness: a call ended with the lookup of the first model answered (its
\* detail mentions reasoning, its identifier does not) and the lookup of
\* the second failed; both are listed and no error is shown.
C8_Witness ==
    /\ resolved.ok
    /\ Len(resolved.lookups) = 2
    /\ ~ resolved.lookups[1].failed
    /\ resolved.lookups[2].failed
    /\ Len(availableModels) = 2
    /\ availableModels[1].supportsReasoning /\ ~ isReasoningModel(availableModels[1].id)
    /\ availableModels[2].supportsReasoning
    /\ modelsError = <<>>

C9_LatestFetchWins ==
    (fetches = <<>> /\ latest.kind = "fetch" /\ latest.overlap) =>
        /\ latest.done
        /\ availableModels = latest.models
        /\ modelsError = latest.error

\* C10: no fetchModels call is started with provider openai and an empty
\* key, and with that configuration, once no call is suspended, the list
\* shown is empty and no error is shown.
C10_IncompleteIsEmpty ==
    /\ \A k \in 1..Len(fetches) :
           ~ (fetches[k].config.provider = "openai" /\ fetches[k].config.apiKey = <<>>)
    /\ (config.provider = "openai" /\ config.apiKey = <<>> /\ fetches = <<>>) =>
           availableModels = <<>> /\ modelsError = <<>>


\* ------------------------------------------------------------------ claims: title
\* The positions of the user messages of a sequence.
UserTurns(msgs) == { k \in 1..Len(msgs) : msgs[k].role = "user" }

\* Every stored title is the first 50 characters of the content of the
\* first user message of the record, and "New Chat" only for a record
\* without a user message.
TitleDerived ==
    \A r \in db :
        IF UserTurns(r.messages) = {}
        THEN r.title = <<"New Chat">>
        ELSE LET first == CHOOSE k \in UserTurns(r.messages) :
                              \A j \in UserTurns(r.messages) : k <= j
                 content == r.messages[first].content
             IN  /\ r.title # <<"New Chat">>
                 /\ Len(r.title) = IF Len(content) < 50 THEN Len(content) ELSE 50
                 /\ \A j \in 1..Len(r.title) : r.title[j] = content[j]

\* q is r after messages were appended to it.
Appended(r, q) ==
    /\ q.id = r.id
    /\ Len(q.messages) > Len(r.messages)
    /\ SubSeq(q.messages, 1, Len(r.messages)) = r.messages

C33_NoEmptySessions ==
    /\ [](/\ \A r \in db : r.messages # <<>>
          /\ \A k \in 1..Len(dbQueue) : \A r \in dbQueue[k].session : r.messages # <<>>)
    /\ [][ (/\ actions' = actions + 1
            /\ messages' = <<>>
            /\ (messages # <<>> \/ currentSessionId' # currentSessionId)) =>
               /\ db' = db
               /\ dbQueue' = dbQueue
               /\ currentSessionId' = now ]_vars

\* C33 witness: New chat was pressed on a session that is stored with its
\* messages; the new session is active and empty, nothing is pending, and
\* no record exists for it.
C33_Witness ==
    /\ messages = <<>>
    /\ dbQueue = <<>>
    /\ actions = MaxActions
    /\ httpCalls = 1
    /\ db # {}
    /\ \A r \in db : r.id # currentSessionId /\ r.messages # <<>>

\* ------------------------------------------------------------------ claims: loading indicator
\* C31: loadingModels is true exactly while at least one fetchModels call
\* has not ended.
C31_LoadingWhileInFlight ==
    loadingModels <=> fetches # <<>>

\* ------------------------------------------------------------------ claims: catalog order
\* C30: a fetchModels call that ends after its detail lookups shows the
\* models of the list response, in the order of the list response, in
\* whatever order the lookups settled; when it writes the configuration,
\* the model written is the first of the list response.
C30_CatalogOrder ==
    [][ \A k \in 1..Len(fetches) :
            (fetches[k].pc = "details" /\ Ends(k)) =>
                /\ [j \in 1..Len(availableModels') |-> availableModels'[j].id]
                      = fetches[k].names
                /\ (resolved'.wrote => config'.model = fetches[k].names[1])
      ]_vars

\* C30 witness: a call for two models ended with the lookup of the first
\* model settling last; the list shown starts with the first model, which
\* was written to the configuration.
C30_Witness ==
    /\ resolved.ok
    /\ Len(resolved.lookups) = 2
    /\ resolved.last = 1
    /\ resolved.wrote
    /\ Len(availableModels) = 2
    /\ availableModels[1].id = Phi
    /\ availableModels[2].id = O1
    /\ config.model = Phi

\* ------------------------------------------------------------------ claims
\* C4: upsert(s) followed by get(s.id) returns exactly s; the put replaces
\* the whole previous record of that key (the store then holds s and
\* nothing else under s.id), leaves the records of the other keys as they
\* were, and putting s a second time right after gives the same store.
C4_UpsertRoundTrip ==
    [][ /\ (lastOp'.op = "put" =>
              \A s \in lastOp'.put :
                  /\ { r \in db' : r.id = s.id } = {s}
                  /\ { r \in db' : r.id # s.id } = { r \in db : r.id # s.id }
                  /\ (lastOp'.prev = "put" /\ lastOp'.prevPut = {s} => db' = db))
        /\ (lastOp'.op = "get" /\ lastOp'.prev = "put" => lastOp'.got = lastOp'.prevPut)
      ]_vars

\* C4 witness: a get right after a put that replaced a different record of
\* the same key, with another key stored beside it.
C4_Witness ==
    /\ lastOp.op = "get" /\ lastOp.prev = "put"
    /\ lastOp.old # {} /\ lastOp.old # lastOp.prevPut
    /\ lastOp.got = lastOp.prevPut
    /\ \E r \in db : r.id # lastOp.id

\* C5: get right after delete of the same key returns null; get of a key
\* that is not stored returns null; delete removes the record of its key
\* only, so delete of a key that is not stored leaves the store unchanged.
C5_DeleteThenGetNull ==
    [][ /\ (lastOp'.op = "get" /\ lastOp'.prev = "delete" => lastOp'.got = {})
        /\ (lastOp'.op = "get" /\ (\A r \in db : r.id # lastOp'.id) => lastOp'.got = {})
        /\ (lastOp'.op = "delete" =>
              /\ ~ \E r \in db' : r.id = lastOp'.id
              /\ { r \in db' : r.id # lastOp'.id } = { r \in db : r.id # lastOp'.id }
              /\ (lastOp'.old = {} => db' = db))
      ]_vars

\* C5 witness: a delete of a key that was not stored, other records present.
C5_Witness ==
    /\ lastOp.op = "delete" /\ lastOp.old = {}
    /\ db # {}

\* C6: the list returned by listAll holds every stored record exactly once
\* and is ordered by updatedAt descending.
C6_ListAllSortedDesc ==
    lastOp.op = "getAll" =>
        /\ Len(lastOp.list) = Cardinality(db)
        /\ { lastOp.list[k] : k \in 1..Len(lastOp.list) } = db
        /\ \A k \in 1..(Len(lastOp.list) - 1) :
               lastOp.list[k].updatedAt >= lastOp.list[k + 1].updatedAt

\* C6 witness: a listing of three records whose order differs from key order.
C6_Witness ==
    /\ lastOp.op = "getAll"
    /\ Len(lastOp.list) >= 3
    /\ \E k \in 1..(Len(lastOp.list) - 1) :
           /\ lastOp.list[k].id > lastOp.list[k + 1].id
           /\ lastOp.list[k].updatedAt > lastOp.list[k + 1].updatedAt

\* C1: a sendMessage call made while a send is pending (loading) appends no
\* message, issues no chat request, starts no save and leaves the pending
\* send as it is; at most one send is ever pending.
C1_BusySubmitRejected ==
    [][ /\ (nBusy' # nBusy =>
              /\ messages' = messages
              /\ sends' = sends
              /\ httpCalls' = httpCalls
              /\ dbQueue' = dbQueue
              /\ loading')
        /\ Len(sends') <= 1
      ]_vars

\* C1 witness: a submit was made while the one send was pending.
C1_Witness ==
    /\ nBusy > 0
    /\ loading
    /\ Len(sends) = 1
    /\ httpCalls = 1

IsErrorContent(content) == content # <<>> /\ content[1] = "t('error')"

Contains(content, part) == \E k \in 1..Len(content) : content[k] = part

\* The step that ends pending send k: exactly one message is appended, of
\* role assistant; it is the error description when the call failed, and
\* carries the status when a non-2xx response was received with its body.
EndsSend(k) ==
    /\ sends' = without(sends, k)
    /\ ~ loading'
    /\ Len(messages') = Len(messages) + 1
    /\ SubSeq(messages', 1, Len(messages)) = messages
    /\ LET s == sends[k]
           m == messages'[Len(messages')]
       IN  /\ m.role = "assistant"
           /\ (s.pc = "fetch" => IsErrorContent(m.content))
           /\ (s.pc = "body" /\ ~ s.res.ok => IsErrorContent(m.content))
           /\ (s.pc = "body" /\ ~ s.res.ok /\ s.res.text # <<>> =>
                  Contains(m.content, s.res.status))
           /\ (s.pc = "body" /\ s.res.ok /\ s.res.json = <<>> => IsErrorContent(m.content))
           /\ (s.pc = "body" /\ s.res.ok /\ s.res.json # <<>> =>
                  ~ IsErrorContent(m.content) \/ s.res.json[1].isNull)

C3_StoredEqualsMemory ==
    (dbQueue = <<>> /\ messages # <<>>) =>
        \E r \in db : r.id = currentSessionId /\ r.messages = messages

\* C3 witness: storage is quiescent after the saves of a user turn and of
\* its assistant turn overlapped.
C3_Witness ==
    /\ dbQueue = <<>>
    /\ overlapped
    /\ Len(messages) >= 2
    /\ messages[Len(messages)].role = "assistant"
    /\ \E r \in db : r.id = currentSessionId /\ r.messages = messages

====
